---- MODULE Spec2Model ----
(***************************************************************************)
(* State-machine model of databaser's Collector (core/collectors.py): the  *)
(* three phases of collect(), the asyncio tasks they launch and the        *)
(* per-table collection state (need_transfer_pks,                          *)
(* is_ready_for_transferring) they mutate.  Tasks are atomic between two   *)
(* awaits of database I/O; asyncio.wait() is a barrier that returns        *)
(* normally whether or not the awaited tasks raised.                       *)
(***************************************************************************)
EXTENDS Integers, Sequences, FiniteSets, TLC

\* ---------------------------------------------------------------- bounds
\* largest CHUNK_SIZE tried (the class constant is 70000; the chunking
\* behaviour is exercised by sizes below and above the id sets of the
\* source data used here)
MaxChunkSize == 2
\* number of database calls that may fail in one behaviour
MaxFaults == 1
\* number of collect() calls in one behaviour
MaxRuns == 2

\* ------------------------------------------------------------ data model
NoTable == ""
NULL == 0

\* a column: its name, the table it references (constraint_table), whether
\* the constraint is a foreign key, and whether it carries a unique
\* constraint
Col(n, ct, fk, uq) == [name |-> n, ct |-> ct, fk |-> fk, unique |-> uq]

\* a source row: primary key, two ordinary columns, and the generic pair
Row(id, f1, f2, oid, ctid) ==
    [id |-> id, f1 |-> f1, f2 |-> f2, oid |-> oid, ctid |-> ctid]

R1(id) == Row(id, NULL, NULL, NULL, NULL)
R2(id, f1) == Row(id, f1, NULL, NULL, NULL)
R3(id, f1, f2) == Row(id, f1, f2, NULL, NULL)
RG(id, f1, ctid, oid) == Row(id, f1, NULL, oid, ctid)

\* the primary-key column as schema introspection reports it: the
\* constraint of a primary key names the table itself
PkSelf(t) == Col("id", t, FALSE, FALSE)
\* a primary-key column that references no table
PkNone == Col("id", NoTable, FALSE, FALSE)
\* a primary-key column that is also a foreign key to table p
PkFk(p) == Col("id", p, TRUE, TRUE)
Fk(n, ct) == Col(n, ct, TRUE, FALSE)
UFk(n, ct) == Col(n, ct, TRUE, TRUE)

EmptyWhere == [x \in {} |-> {}]

\* ------------------------------------------------------ schemas and data
\* A scenario is the input of collect(): the populated schema model, the
\* settings, the source rows and the candidate key value sets.
Schema(nm, key, pk, cols, keycol, rows, seeds) ==
    [ name |-> nm, tables |-> DOMAIN rows, key |-> key,
      excluded |-> {}, generic |-> {},
      pk |-> pk, cols |-> cols, keycol |-> keycol,
      full |-> [t \in DOMAIN rows |-> FALSE],
      rows |-> rows,
      dtype |-> [t \in DOMAIN rows |-> "int"],
      oidtype |-> "int",
      dstcat |-> <<>>, srccat |-> <<>>,
      seeds |-> seeds ]

\* 1. key-only
ScKeyOnly ==
    Schema("keyonly", "org",
        [org |-> PkSelf("org")],
        [org |-> {}],
        [org |-> ""],
        [org |-> {R1(1), R1(2), R1(3)}],
        {{1, 2}})

\* 2./3. single forward FK, and a table referencing the key-anchored one
ScForward ==
    Schema("forward", "org",
        [org |-> PkSelf("org"), user |-> PkSelf("user"), doc |-> PkSelf("doc")],
        [org |-> {}, user |-> {Fk("f1", "org")}, doc |-> {Fk("f1", "user")}],
        [org |-> "", user |-> "f1", doc |-> ""],
        [org |-> {R1(1), R1(2)},
         user |-> {R2(10, 1), R2(11, 1), R2(12, 2)},
         doc |-> {R2(100, 10), R2(101, 12)}],
        {{1}, {1, 2}})

\* 4. a cycle a -> b -> a reached from a key-anchored table
ScCycle ==
    Schema("cycle", "org",
        [org |-> PkSelf("org"), t |-> PkSelf("t"), a |-> PkSelf("a"),
         b |-> PkSelf("b")],
        [org |-> {}, t |-> {Fk("f1", "org"), Fk("f2", "a")},
         a |-> {Fk("f1", "b")}, b |-> {Fk("f1", "a")}],
        [org |-> "", t |-> "f1", a |-> "", b |-> ""],
        [org |-> {R1(1), R1(2)},
         t |-> {R3(1, 1, 1), R3(2, 2, 3)},
         a |-> {R2(1, 1), R2(2, 2), R2(3, 3)},
         b |-> {R2(1, 2), R2(2, 1), R2(3, 3)}],
        {{1}})

\* linear chain a -> b -> c, a key-anchored
ScChain ==
    Schema("chain", "org",
        [org |-> PkSelf("org"), a |-> PkSelf("a"), b |-> PkSelf("b"),
         c |-> PkSelf("c")],
        [org |-> {}, a |-> {Fk("f1", "org"), Fk("f2", "b")},
         b |-> {Fk("f1", "c")}, c |-> {}],
        [org |-> "", a |-> "f1", b |-> "", c |-> ""],
        [org |-> {R1(1), R1(2)},
         a |-> {R3(1, 1, 1), R3(2, 2, 2), R3(3, 1, 3)},
         b |-> {R2(1, 1), R2(2, 2), R2(3, 1), R2(4, 3)},
         c |-> {R1(1), R1(2), R1(3)}],
        {{1}})

\* 5. generic foreign key; flag is an ordinary table referencing the
\* generic table
ScGeneric ==
    [ Schema("generic", "org",
        [org |-> PkSelf("org"), post |-> PkSelf("post"),
         photo |-> PkSelf("photo"), comment |-> PkSelf("comment"),
         flag |-> PkSelf("flag")],
        [org |-> {}, post |-> {Fk("f1", "org")}, photo |-> {Fk("f1", "org")},
         comment |-> {Fk("f1", "post")}, flag |-> {Fk("f1", "comment")}],
        [org |-> "", post |-> "f1", photo |-> "f1", comment |-> "", flag |-> ""],
        [org |-> {R1(1), R1(2)},
         post |-> {R2(10, 1), R2(99, 2)},
         photo |-> {R2(20, 1)},
         comment |-> {RG(1, NULL, 7, 10), RG(2, 10, 8, 20), RG(3, NULL, 7, 99),
                      RG(4, NULL, 8, 20)},
         flag |-> {R2(1, 1), R2(2, 3)}],
        {{1}})
      EXCEPT !.generic = {"comment"},
             !.dstcat = << <<"post", "post">>, <<"photo", "photo">> >>,
             !.srccat = << <<7, "post">>, <<8, "photo">> >> ]

\* generic table without any typed FK; the destination catalog holds a
\* model the source catalog lacks, and a model of another pk data type
ScGenericCat ==
    [ Schema("genericcat", "org",
        [org |-> PkSelf("org"), post |-> PkSelf("post"),
         tag |-> PkSelf("tag"), comment |-> PkSelf("comment")],
        [org |-> {}, post |-> {Fk("f1", "org")}, tag |-> {Fk("f1", "org")},
         comment |-> {}],
        [org |-> "", post |-> "f1", tag |-> "f1", comment |-> ""],
        [org |-> {R1(1), R1(2)},
         post |-> {R2(10, 1), R2(99, 2)},
         tag |-> {R2(10, 1)},
         comment |-> {RG(1, NULL, 7, 10), RG(2, NULL, 9, 10), RG(3, NULL, 7, 99)}],
        {{1}})
      EXCEPT !.generic = {"comment"},
             !.dtype = [org |-> "int", post |-> "int", tag |-> "str",
                        comment |-> "int"],
             !.dstcat = << <<"post", "post">>, <<"tag", "tag">>,
                           <<"org", "org">> >>,
             !.srccat = << <<7, "post">>, <<9, "tag">> >> ]

\* the same, the destination catalog listing the model the source lacks
\* before the others
ScGenericFirst ==
    [ ScGenericCat EXCEPT
        !.name = "genericfirst",
        !.dstcat = << <<"org", "org">>, <<"post", "post">>,
                      <<"tag", "tag">> >> ]

\* a generic table that holds the key column itself
ScGenericKey ==
    [ Schema("generickey", "org",
        [org |-> PkSelf("org"), post |-> PkSelf("post"),
         comment |-> PkSelf("comment")],
        [org |-> {}, post |-> {Fk("f1", "org")},
         comment |-> {Fk("f1", "org")}],
        [org |-> "", post |-> "f1", comment |-> "f1"],
        [org |-> {R1(1), R1(2)},
         post |-> {R2(10, 1), R2(99, 2)},
         comment |-> {RG(1, 1, 7, 10), RG(2, 2, 7, 10), RG(3, 1, 7, 99),
                      RG(4, 1, 5, 1)}],
        {{1}})
      EXCEPT !.generic = {"comment"},
             !.dstcat = << <<"org", "org">>, <<"post", "post">> >>,
             !.srccat = << <<5, "org">>, <<7, "post">> >> ]

\* 6. excluded table referenced by a key-anchored table
ScExcluded ==
    [ Schema("excluded", "org",
        [org |-> PkSelf("org"), user |-> PkSelf("user"), dept |-> PkSelf("dept")],
        [org |-> {}, user |-> {Fk("f1", "org"), Fk("f2", "dept")}, dept |-> {}],
        [org |-> "", user |-> "f1", dept |-> ""],
        [org |-> {R1(1), R1(2)},
         user |-> {R3(10, 1, 1), R3(11, 1, 2), R3(12, 2, 1)},
         dept |-> {R1(1), R1(2)}],
        {{1}})
      EXCEPT !.excluded = {"dept"} ]

\* excluded table whose primary key is itself a foreign key (a one-to-one
\* extension of user)
ScInherit ==
    [ Schema("inherit", "org",
        [org |-> PkSelf("org"), user |-> PkSelf("user"), prof |-> PkFk("user")],
        [org |-> {}, user |-> {Fk("f1", "org")}, prof |-> {}],
        [org |-> "", user |-> "f1", prof |-> ""],
        [org |-> {R1(1), R1(2)},
         user |-> {R2(10, 1), R2(12, 2)},
         prof |-> {R1(10), R1(12)}],
        {{1}})
      EXCEPT !.excluded = {"prof"} ]

\* self-referencing table n reached from a key-anchored table
ScSelf ==
    Schema("self", "org",
        [org |-> PkSelf("org"), a |-> PkSelf("a"), n |-> PkSelf("n")],
        [org |-> {}, a |-> {Fk("f1", "org"), Fk("f2", "n")},
         n |-> {Fk("f1", "n")}],
        [org |-> "", a |-> "f1", n |-> ""],
        [org |-> {R1(1), R1(2)},
         a |-> {R3(1, 1, 1)},
         n |-> {R2(1, 2), R2(2, 3), R2(3, NULL), R2(4, NULL)}],
        {{1}})

\* a table with a unique FK column and another FK column
ScUnique ==
    Schema("unique", "org",
        [org |-> PkSelf("org"), a |-> PkSelf("a"), b |-> PkSelf("b"),
         w |-> PkSelf("w")],
        [org |-> {}, a |-> {Fk("f1", "org")}, b |-> {Fk("f1", "org")},
         w |-> {UFk("f1", "a"), Fk("f2", "b")}],
        [org |-> "", a |-> "f1", b |-> "f1", w |-> ""],
        [org |-> {R1(1), R1(2)},
         a |-> {R2(1, 1), R2(2, 2)},
         b |-> {R2(1, 1), R2(2, 2)},
         w |-> {R3(1, 1, 1), R3(2, 1, 2), R3(3, 2, 1)}],
        {{1}})

\* a fully transferred dimension table d
ScFull ==
    [ Schema("full", "org",
        [org |-> PkSelf("org"), a |-> PkSelf("a"), d |-> PkSelf("d"),
         w |-> PkSelf("w")],
        [org |-> {}, a |-> {Fk("f1", "org"), Fk("f2", "d")}, d |-> {},
         w |-> {Fk("f1", "d")}],
        [org |-> "", a |-> "f1", d |-> "", w |-> ""],
        [org |-> {R1(1), R1(2)},
         a |-> {R3(1, 1, 1), R3(2, 2, 2)},
         d |-> {R1(1), R1(2)},
         w |-> {R2(1, 1), R2(2, 2), R2(3, NULL)}],
        {{1}})
      EXCEPT !.full = [org |-> FALSE, a |-> FALSE, d |-> TRUE, w |-> FALSE] ]

\* a key-anchored table with a second FK to the key table
ScTwoRefs ==
    Schema("tworefs", "org",
        [org |-> PkSelf("org"), user |-> PkSelf("user")],
        [org |-> {}, user |-> {Fk("f1", "org"), Fk("f2", "org")}],
        [org |-> "", user |-> "f1"],
        [org |-> {R1(1), R1(2), R1(3)},
         user |-> {R3(10, 1, 2), R3(11, 2, 1)}],
        {{1}})

\* two key-anchored tables referencing the same table with different ids
ScTwoWriters ==
    Schema("twowriters", "org",
        [org |-> PkSelf("org"), a |-> PkSelf("a"), b |-> PkSelf("b"),
         team |-> PkSelf("team")],
        [org |-> {}, a |-> {Fk("f1", "org"), Fk("f2", "team")},
         b |-> {Fk("f1", "org"), Fk("f2", "team")}, team |-> {}],
        [org |-> "", a |-> "f1", b |-> "f1", team |-> ""],
        [org |-> {R1(1), R1(2)},
         a |-> {R3(1, 1, 1), R3(2, 2, 3)},
         b |-> {R3(1, 1, 2), R3(2, 2, 3)},
         team |-> {R1(1), R1(2), R1(3)}],
        {{1}})

BaseScenarios ==
    { ScKeyOnly, ScForward, ScCycle, ScChain, ScGeneric, ScGenericCat,
      ScGenericFirst, ScGenericKey, ScExcluded, ScInherit, ScSelf, ScUnique, ScFull, ScTwoRefs,
      ScTwoWriters }

\* how introspection filled constraint_table of plain primary keys: with
\* the table itself, or not at all
PkModes == {"self", "none"}

ApplyPkMode(s, mode) ==
    [ s EXCEPT !.pk = [t \in s.tables |->
        IF s.pk[t].fk \/ mode = "self" THEN s.pk[t] ELSE PkNone] ]

Scenarios == { ApplyPkMode(s, m) : s \in BaseScenarios, m \in PkModes }

\* ------------------------------------------------- schema model (DBTable)
AllColumns(s, t) == {s.pk[t]} \cup s.cols[t]

ColumnByName(s, t, n) == CHOOSE c \in AllColumns(s, t) : c.name = n

\* forward FK columns of t
FkColumns(s, t) == {c \in AllColumns(s, t) : c.fk}

\* forward FK columns excluding self-references
NotSelfFkColumns(s, t) == {c \in FkColumns(s, t) : c.ct # t}

WithKeyColumn(s, t) == s.keycol[t] # ""

\* FK columns whose referenced table has with_key_column = true
FksWithKeyColumn(s, t) ==
    {c \in FkColumns(s, t) : c.ct \in s.tables /\ WithKeyColumn(s, c.ct)}

\* FK columns carrying a unique constraint
UniqueForeignKeysColumns(s, t) == {c \in FkColumns(s, t) : c.unique}

IsFullTransferred(s, t) == s.full[t]

\* names of the tables that have a FK column pointing at t
RevertFkTables(s, t) ==
    {r \in s.tables : \E c \in FkColumns(s, r) : c.ct = t}

\* columns of r that reference t through a FK constraint
GetColumnsByConstraintTableName(s, r, t) ==
    {c \in FkColumns(s, r) : c.ct = t}

TablesWithKeyColumn(s) == {t \in s.tables : WithKeyColumn(s, t)}

TablesWithoutGenerics(s) == s.tables \ s.generic

\* ------------------------------------------------------- SQL repository
\* The rows of t a statement of get_table_column_values_sql selects: the
\* key-column match when t has a key column, the primary-key restriction
\* when one is given, and every where-restriction.
SelectedRows(s, t, keyvals, pks, where) ==
    { r \in s.rows[t] :
        /\ WithKeyColumn(s, t) => r[s.keycol[t]] \in keyvals
        /\ pks # {} => r.id \in pks
        /\ \A n \in DOMAIN where : r[n] \in where[n] }

\* distinct values of column cn over the selected rows (NULLs included:
\* the caller drops them)
SqlColumnValues(s, t, cn, keyvals, pks, where) ==
    { r[cn] : r \in SelectedRows(s, t, keyvals, pks, where) }

\* make_chunks over a set of ids: consecutive runs of at most size ids in
\* ascending order
RECURSIVE MakeChunks(_, _)
MakeChunks(S, size) ==
    IF S = {} THEN <<>>
    ELSE LET RECURSIVE Take(_, _)
             Take(T, k) ==
                 IF k = 0 \/ T = {} THEN {}
                 ELSE LET m == CHOOSE x \in T : \A y \in T : x <= y
                      IN {m} \cup Take(T \ {m}, k - 1)
             first == Take(S, size)
         IN <<first>> \o MakeChunks(S \ first, size)

\* ---------------------------------------------------- topological sorter
Reverse(q) == [i \in 1..Len(q) |-> q[Len(q) + 1 - i]]

SeqRange(q) == {q[i] : i \in 1..Len(q)}

\* all orderings of a finite set
Perms(S) ==
    { q \in [1..Cardinality(S) -> S] :
        \A i, j \in 1..Cardinality(S) : i # j => q[i] # q[j] }

EdgeNodes(E) == {e[1] : e \in E} \cup {e[2] : e \in E}

\* nodes that must precede n: with heads first the tables referencing n,
\* with tails first the tables n references
Before(E, n, headsFirst) ==
    IF headsFirst THEN {e[1] : e \in {x \in E : x[2] = n}}
    ELSE {e[2] : e \in {x \in E : x[1] = n}}

\* the nodes that can be linearized: repeatedly take a node all of whose
\* predecessors were taken
RECURSIVE Orderable(_, _, _)
Orderable(E, done, headsFirst) ==
    LET more == {n \in EdgeNodes(E) \ done : Before(E, n, headsFirst) \subseteq done}
    IN IF more = {} THEN done ELSE Orderable(E, done \cup more, headsFirst)

IsLinearization(E, q, headsFirst) ==
    \A i \in 1..Len(q) :
        Before(E, q[i], headsFirst) \subseteq {q[j] : j \in 1..(i - 1)}

\* the results topological_sort may return for an edge list: sorted is a
\* linearization of the acyclic part, cyclic the remaining nodes
TopoResults(E) ==
    UNION { LET acyc == Orderable(E, {}, hf)
            IN { [sorted |-> q, cyclic |-> c] :
                    q \in {x \in Perms(acyc) : IsLinearization(E, x, hf)},
                    c \in Perms(EdgeNodes(E) \ acyc) }
          : hf \in BOOLEAN }

\* ------------------------------------------------------------------ state
VARIABLES
    sc,        \* the scenario: schema model, settings and source rows
    seed,      \* key_column_values given to the Collector
    chunk,     \* CHUNK_SIZE
    topo,      \* what topological_sort answers for this schema
    wr,        \* iteration order of the without_relatives set
    faults,    \* database calls that may still fail
    need,      \* table -> need_transfer_pks
    ready,     \* table -> is_ready_for_transferring
    revflag,   \* table -> referencing tables flagged in revert_fk_tables
    cttable,   \* content_type_table: table name -> source content_type_id
    pc,        \* position of the collect() coroutine
    tasks,     \* live asyncio tasks
    rq,        \* the event loop's queue of tasks ready to run, first in first out
    walk,      \* sorted_not_transferred of the current Phase 2b
    wi,        \* index of the walk
    cur,       \* the fetch the Phase 2b coroutine is awaiting
    failed,    \* kinds of the tasks that ended with an exception
    run,       \* number of collect() calls started
    saved,     \* need_transfer_pks and CHUNK_SIZE when the first collect() returned
    tr         \* the Transporter: its coroutines and the chunk transfers

env == <<sc, seed, topo, wr>>

vars == <<sc, seed, chunk, topo, wr, faults, need, ready, revflag, cttable,
          pc, tasks, rq, walk, wi, cur, failed, run, saved, tr>>

\* edge list built by _prepare_common_tables
NotTransferredRelatives(s) ==
    UNION { { <<t, c.ct>> : c \in NotSelfFkColumns(s, t) } :
            t \in TablesWithoutGenerics(s) }

WithoutRelatives(s, sorted_not_transferred) ==
    TablesWithoutGenerics(s) \ SeqRange(sorted_not_transferred)

\* a walk that takes the sorter's lists as they come
SortedNotTransferredUnreversed(without_relatives, sorting_result) ==
    without_relatives \o sorting_result.cyclic \o sorting_result.sorted

\* the Phase 2b order: tables outside every edge, then the reversed
\* cyclic list, then the reversed sorted list
SortedNotTransferred(without_relatives, sorting_result) ==
    without_relatives \o Reverse(sorting_result.cyclic)
        \o Reverse(sorting_result.sorted)

NoFetch == [res |-> {}, db |-> FALSE, cols |-> FALSE, where |-> FALSE]

\* a Transporter on which transfer() was not called
NewTransporter(s, size, faultCount) ==
    [ pc |-> "idle",
      size |-> size,
      faults |-> faultCount,
      co |-> [t \in s.tables |-> [st |-> "none", k |-> 0]],
      chunks |-> [t \in s.tables |-> <<>>],
      inflight |-> {},
      landed |-> {},
      transferred |-> [t \in s.tables |-> {}],
      gather |-> "pending",
      seq |-> "none" ]

InitCollector(s, faultSet) ==
    /\ sc = s
    /\ seed \in s.seeds
    /\ chunk \in 1..MaxChunkSize
    /\ topo \in TopoResults(NotTransferredRelatives(s))
    /\ wr \in Perms(WithoutRelatives(s, topo.cyclic \o topo.sorted))
    /\ faults \in faultSet
    /\ need = [t \in s.tables |-> {}]
    /\ ready = [t \in s.tables |-> FALSE]
    /\ revflag = [t \in s.tables |-> {}]
    /\ cttable = EmptyWhere
    /\ pc = "idle"
    /\ tasks = {}
    /\ rq = <<>>
    /\ walk = <<>>
    /\ wi = 1
    /\ cur = NoFetch
    /\ failed = {}
    /\ run = 0
    /\ saved = [pks |-> [t \in s.tables |-> {}], chunk |-> 0]
    /\ tr = NewTransporter(s, 1, 0)

Init == \E s \in Scenarios : InitCollector(s, 0..MaxFaults)

\* ------------------------------------------------------------------ tasks
Elem(n, k) == [n |-> n, k |-> k]

\* a task: its path in the task tree, the coroutine it runs and its
\* arguments; st is "new" (scheduled), "io" (awaiting the database) or
\* "wait" (awaiting asyncio.wait of its children)
NewTask(id, kind, t, c, o, pks, stack, depth) ==
    [ id |-> id, kind |-> kind, t |-> t, c |-> c, o |-> o, pks |-> pks,
      stack |-> stack, depth |-> depth, st |-> "new", res |-> {},
      db |-> FALSE ]

IsPrefix(p, q) == Len(p) < Len(q) /\ SubSeq(q, 1, Len(p)) = p

\* asyncio.wait that returns without waiting
HasNoneToWaitFor(tk) == FALSE

HasChildren(tk) == \E x \in tasks : IsPrefix(tk.id, x.id)

\* the tasks the asyncio.wait of the driving coroutine was given
Outstanding == {x \in tasks : Len(x.id) = 1}

\* the collect() coroutine has not been cancelled
Collecting == "collect" \notin failed

\* _get_table_column_values: no query when the column has no
\* constraint_table or when that table is excluded; else the distinct
\* non-null values the statement returns.  db tells whether a query is sent.
GetTableColumnValues(s, keyvals, t, col, pks, where) ==
    IF col.ct = NoTable THEN [res |-> {}, db |-> FALSE]
    ELSE IF col.ct \in s.excluded THEN [res |-> {}, db |-> FALSE]
    ELSE [res |-> SqlColumnValues(s, t, col.name, keyvals, pks, where) \ {NULL},
          db |-> TRUE]

\* what a database call can do: answer, raise PostgresSyntaxError (caught
\* in _get_constraint_table_ids_part, the statement then counts as
\* returning no rows), or raise another driver error
Outcomes(tk) ==
    IF tk.db /\ faults > 0 THEN {"ok", "syntax", "driver"} ELSE {"ok"}

\* ids a completed fetch hands to its caller
FetchResult(tk, outcome) == IF outcome = "syntax" THEN {} ELSE tk.res

Spend(outcome) == IF outcome = "ok" THEN faults ELSE faults - 1

\* _recursively_preparing_table: the tasks it launches
RecursivelyPreparingTable(s, id, t, pks, stack, depth) ==
    IF depth = 0 THEN {}
    ELSE { NewTask(Append(id, Elem(c.name, 0)), "foreign_table", t, c.name,
                   c.ct, pks, Append(stack, t), depth)
           : c \in NotSelfFkColumns(s, t) }

\* a depth that is handed on as it came
ChunkDepthKept(s, foreign, depth) == depth

\* deep_without_key_table handed on by
\* _recursively_preparing_foreign_table_chunk
ChunkDepth(s, foreign, depth) ==
    IF ~WithKeyColumn(s, foreign) THEN depth - 1 ELSE depth

\* the skip test of _recursively_preparing_foreign_table
SkipForeignTable(s, foreign, stack) ==
    foreign \in SeqRange(stack) \/ WithKeyColumn(s, foreign)

ChunkTasks(id, kind, t, ids, stack, depth) ==
    LET chunks == MakeChunks(ids, chunk)
    IN { NewTask(Append(id, Elem(t, k)), kind, t, "", "", chunks[k], stack, depth)
         : k \in 1..Len(chunks) }

\* assignment in place of set union
UpdateReplacing(t, ids) == [need EXCEPT ![t] = ids]

\* set union into need_transfer_pks
Update(t, ids) == [need EXCEPT ![t] = @ \cup ids]

MarkReady(t) == [ready EXCEPT ![t] = TRUE]

\* a task step: the new task set and collection state; the collect()
\* coroutine itself does not move
\* tasks created by one step are scheduled in the order asyncio.wait
\* iterates its set of coroutines, which is any order; a task whose call
\* returned without a query goes on at once
Schedule(tasks2, queue) ==
    \E q \in Perms({x.id : x \in {y \in tasks2 \ tasks : y.st = "new"}}) :
        rq' = [i \in 1..Cardinality({y \in tasks2 \ tasks : y.st = "iodone"})
                 |-> (CHOOSE y \in tasks2 \ tasks : y.st = "iodone").id]
              \o queue \o q

TaskStep(tasks2, need2, ready2, revflag2, faults2) ==
    /\ tasks' = tasks2
    /\ Schedule(tasks2, Tail(rq))
    /\ need' = need2
    /\ ready' = ready2
    /\ revflag' = revflag2
    /\ faults' = faults2
    /\ UNCHANGED <<env, tr, chunk, cttable, pc, walk, wi, cur, failed, run, saved>>

\* the task the event loop runs now
Running(tk) == rq # <<>> /\ Head(rq) = tk.id

Replace(tk, new, kids) == (tasks \ {tk}) \cup new \cup kids

Await(tk, f) ==
    [tk EXCEPT !.st = IF f.db THEN "io" ELSE "iodone", !.res = f.res,
               !.db = f.db]

Waiting(tk) == [tk EXCEPT !.st = "wait", !.res = {}, !.db = FALSE]

\* outcomes of a fetch that hand a result back to the caller
Answers(tk) == Outcomes(tk) \ {"driver"}

\* --------------------------------------------------------------- phase 1
CallCollect ==
    /\ pc = "idle"
    /\ pc' = "phase1"
    /\ run' = run + 1
    /\ UNCHANGED <<env, tr, chunk, faults, need, ready, revflag, cttable, tasks, rq,
                   walk, wi, cur, failed, saved>>

\* _collect_key_table_values
CollectKeyTableValues ==
    /\ pc = "phase1"
    /\ need' = Update(sc.key, seed)
    /\ ready' = MarkReady(sc.key)
    /\ pc' = "phase2a"
    /\ UNCHANGED <<env, tr, chunk, faults, revflag, cttable, tasks, rq, walk, wi, cur,
                   failed, run, saved>>

\* -------------------------------------------------------------- phase 2a
\* collect() enters the second stage: the task of _prepare_common_tables
\* is created
EnterCommonTablesStage ==
    /\ pc = "phase2a" /\ Collecting
    /\ pc' = "stage2"
    /\ UNCHANGED <<env, tr, chunk, faults, need, ready, revflag, cttable, tasks, rq,
                   walk, wi, cur, failed, run, saved>>

\* _prepare_common_tables, up to its first asyncio.wait
PrepareCommonTables ==
    /\ pc = "stage2"
    /\ tasks' = { NewTask(<<Elem(t, 0)>>, "with_key_column", t, "", "", {},
                          <<>>, 0) : t \in TablesWithKeyColumn(sc) }
    /\ Schedule(tasks', rq)
    /\ pc' = "wait2a"
    /\ UNCHANGED <<env, tr, chunk, faults, need, ready, revflag, cttable, walk, wi,
                   cur, failed, run, saved>>

\* _prepare_tables_with_key_column: the key-restricted fetch is sent
PrepareTablesWithKeyColumn(tk) ==
    /\ tk.kind = "with_key_column" /\ tk.st = "new" /\ Running(tk)
    /\ TaskStep(
         Replace(tk, {Await(tk, GetTableColumnValues(sc, seed, tk.t,
                                   sc.pk[tk.t], {}, EmptyWhere))}, {}),
         need, ready, revflag, faults)

\* only the first chunk of the fetched ids is kept
PrepareTablesWithKeyColumnFirstChunk(tk, outcome) ==
    /\ tk.kind = "with_key_column" /\ tk.st = "iodone" /\ Running(tk)
    /\ outcome \in Answers(tk)
    /\ LET ids == FetchResult(tk, outcome)
       IN IF ids # {}
          THEN TaskStep(
                 Replace(tk, {Waiting(tk)},
                         ChunkTasks(tk.id, "with_key_column_chunk", tk.t, ids,
                                    <<>>, 1)),
                 Update(tk.t, MakeChunks(ids, chunk)[1]), ready, revflag,
                 Spend(outcome))
          ELSE TaskStep(Replace(tk, {}, {}), need, MarkReady(tk.t), revflag,
                        Spend(outcome))

\* ... its ids arrive: union, then one task per chunk
PrepareTablesWithKeyColumnFetched(tk, outcome) ==
    /\ tk.kind = "with_key_column" /\ tk.st = "iodone" /\ Running(tk)
    /\ outcome \in Answers(tk)
    /\ LET ids == FetchResult(tk, outcome)
       IN IF ids # {}
          THEN TaskStep(
                 Replace(tk, {Waiting(tk)},
                         ChunkTasks(tk.id, "with_key_column_chunk", tk.t, ids,
                                    <<>>, 1)),
                 Update(tk.t, ids), ready, revflag, Spend(outcome))
          ELSE TaskStep(Replace(tk, {}, {}), need, MarkReady(tk.t), revflag,
                        Spend(outcome))

\* ... all chunk tasks are done
PrepareTablesWithKeyColumnDone(tk) ==
    /\ tk.kind = "with_key_column" /\ tk.st = "woken" /\ Running(tk)
    /\ TaskStep(Replace(tk, {}, {}), need, MarkReady(tk.t), revflag, faults)

\* _recursively_preparing_table_with_key_column and
\* _recursively_preparing_foreign_table_chunk: both run
\* _recursively_preparing_table
RecursivelyPreparingChunk(tk) ==
    /\ tk.kind \in {"with_key_column_chunk", "foreign_table_chunk"}
    /\ tk.st = "new" /\ Running(tk)
    /\ LET depth == IF tk.kind = "foreign_table_chunk"
                    THEN ChunkDepth(sc, tk.t, tk.depth) ELSE tk.depth
           kids == RecursivelyPreparingTable(sc, tk.id, tk.t, tk.pks,
                                             tk.stack, depth)
       IN TaskStep(Replace(tk, IF kids = {} THEN {} ELSE {Waiting(tk)}, kids),
                   need, ready, revflag, faults)

\* a coroutine that only awaited its children returns
WaitDone(tk) ==
    /\ tk.kind \in {"with_key_column_chunk", "foreign_table_chunk",
                    "foreign_table", "generic_table"}
    /\ tk.st = "woken" /\ Running(tk)
    /\ TaskStep(Replace(tk, {}, {}), need, ready, revflag, faults)

\* _recursively_preparing_foreign_table: skip, or send the fetch
RecursivelyPreparingForeignTable(tk) ==
    /\ tk.kind = "foreign_table" /\ tk.st = "new" /\ Running(tk)
    /\ IF SkipForeignTable(sc, tk.o, tk.stack)
       THEN TaskStep(Replace(tk, {}, {}), need, ready, revflag, faults)
       ELSE LET pks == IF WithKeyColumn(sc, tk.t) \/ IsFullTransferred(sc, tk.t)
                       THEN {} ELSE tk.pks
            IN TaskStep(
                 Replace(tk, {Await(tk, GetTableColumnValues(sc, seed, tk.t,
                            ColumnByName(sc, tk.t, tk.c), pks, EmptyWhere))}, {}),
                 need, ready, revflag, faults)

\* the ids not yet selected in the foreign table
ForeignTablePksDifference(foreign, ids) == ids \ need[foreign]

\* ... the referenced ids arrive: union of the difference, one task per
\* chunk of it
RecursivelyPreparingForeignTableFetched(tk, outcome) ==
    /\ tk.kind = "foreign_table" /\ tk.st = "iodone" /\ Running(tk)
    /\ outcome \in Answers(tk)
    /\ LET diff == ForeignTablePksDifference(tk.o, FetchResult(tk, outcome))
       IN IF diff # {}
          THEN TaskStep(
                 Replace(tk, {Waiting(tk)},
                         ChunkTasks(tk.id, "foreign_table_chunk", tk.o, diff,
                                    tk.stack, tk.depth)),
                 Update(tk.o, diff), ready, revflag, Spend(outcome))
          ELSE TaskStep(Replace(tk, {}, {}), need, ready, revflag,
                        Spend(outcome))

\* the answer to a task's query arrives: the task becomes ready to run
IOArrive(tk) ==
    /\ tk.st = "io"
    /\ tasks' = (tasks \ {tk}) \cup {[tk EXCEPT !.st = "iodone"]}
    /\ rq' = Append(rq, tk.id)
    /\ UNCHANGED <<env, tr, chunk, faults, need, ready, revflag, cttable, pc, walk,
                   wi, cur, failed, run, saved>>

\* every task a coroutine waits for has ended: asyncio.wait returns, the
\* coroutine becomes ready to run
Wake(tk) ==
    /\ tk.st = "wait" /\ ~HasChildren(tk)
    /\ tasks' = (tasks \ {tk}) \cup {[tk EXCEPT !.st = "woken"]}
    /\ rq' = Append(rq, tk.id)
    /\ UNCHANGED <<env, tr, chunk, faults, need, ready, revflag, cttable, pc, walk,
                   wi, cur, failed, run, saved>>

\* a database call of a task raises a driver error other than
\* PostgresSyntaxError: the task ends with the exception
TaskFails(tk) ==
    /\ tk.st = "iodone" /\ Running(tk)
    /\ "driver" \in Outcomes(tk)
    /\ tasks' = tasks \ {tk}
    /\ rq' = Tail(rq)
    /\ failed' = failed \cup {tk.kind}
    /\ faults' = faults - 1
    /\ UNCHANGED <<env, tr, chunk, need, ready, revflag, cttable, pc, walk, wi,
                   cur, run, saved>>

\* -------------------------------------------------------------- phase 2b
\* _prepare_common_tables after the Phase 2a barrier: the edge list is
\* sorted and the walk order assembled
SortNotTransferred ==
    /\ pc = "wait2a" /\ Outstanding = {}
    /\ walk' = SortedNotTransferred(wr, topo)
    /\ wi' = 1
    /\ pc' = "phase2b"
    /\ UNCHANGED <<env, tr, chunk, faults, need, ready, revflag, cttable, tasks, rq,
                   cur, failed, run, saved>>

\* FK-column selection of _collect_importing_fk_tables_records_ids
ClosureFkColumns(s, t) ==
    LET base == IF FksWithKeyColumn(s, t) # {} THEN FksWithKeyColumn(s, t)
                ELSE NotSelfFkColumns(s, t)
    IN IF UniqueForeignKeysColumns(s, t) # {}
       THEN UniqueForeignKeysColumns(s, t) ELSE base

\* columns whose target has selected ids and is not fully transferred
WhereColumns(s, t) ==
    { c \in ClosureFkColumns(s, t) :
        need[c.ct] # {} /\ ~IsFullTransferred(s, c.ct) }

WhereConditionsColumns(s, t) ==
    [ n \in {c.name : c \in WhereColumns(s, t)} |->
        need[ColumnByName(s, t, n).ct] ]

WithFullTransferredTable(s, t) ==
    \E c \in ClosureFkColumns(s, t) :
        need[c.ct] # {} /\ IsFullTransferred(s, c.ct)

\* the early return before the fetch
NothingToPull(s, t) ==
    /\ ClosureFkColumns(s, t) # {}
    /\ WhereColumns(s, t) = {}
    /\ ~WithFullTransferredTable(s, t)

\* the index of the table the walk turns to next
\* a walk that stays on the table it looked at
NextTableSame(i) == i

NextTable(i) == i + 1

WalkMove(pc2, wi2, cur2, need2, ready2, tasks2, faults2, failed2) ==
    /\ pc' = pc2
    /\ wi' = wi2
    /\ cur' = cur2
    /\ need' = need2
    /\ ready' = ready2
    /\ tasks' = tasks2
    /\ Schedule(tasks2, rq)
    /\ faults' = faults2
    /\ failed' = failed2
    /\ UNCHANGED <<env, tr, chunk, revflag, cttable, walk, run, saved>>

\* the for loop is exhausted: _prepare_common_tables returns
WalkFinished ==
    /\ pc = "phase2b" /\ wi > Len(walk)
    /\ WalkMove("phase3", wi, cur, need, ready, tasks, faults, failed)

\* a table that is already ready is passed over
WalkSkipReady ==
    /\ pc = "phase2b" /\ wi <= Len(walk)
    /\ ready[walk[wi]]
    /\ WalkMove("phase2b", NextTable(wi), cur, need, ready, tasks, faults, failed)

\* _collect_importing_fk_tables_records_ids returns before any fetch
CollectImportingNothingToPull ==
    /\ pc = "phase2b" /\ wi <= Len(walk)
    /\ ~ready[walk[wi]]
    /\ NothingToPull(sc, walk[wi])
    /\ WalkMove("phase2b", NextTable(wi), cur, need, ready, tasks, faults, failed)

\* ... or sends the fetch of the table's primary keys
CollectImportingFetch ==
    /\ pc = "phase2b" /\ wi <= Len(walk)
    /\ ~ready[walk[wi]]
    /\ ~NothingToPull(sc, walk[wi])
    /\ LET t == walk[wi]
           f == GetTableColumnValues(sc, seed, t, sc.pk[t], {},
                                     WhereConditionsColumns(sc, t))
       IN WalkMove("fetch2b", wi,
                   [res |-> f.res, db |-> f.db,
                    cols |-> ClosureFkColumns(sc, t) # {},
                    where |-> WhereColumns(sc, t) # {}],
                   need, ready, tasks, faults, failed)

RevertTasks(s, t) ==
    { NewTask(<<Elem(r, 0)>>, "revert_table", t, "", r, {}, <<>>, 0)
      : r \in RevertFkTables(s, t) }

\* the second early return: restrictions were given and nothing came back
EmptyAnswer(fk_ids) == cur.cols /\ cur.where /\ fk_ids = {}

\* ... the ids arrive: return on an empty answer, else union and launch
\* the reverse expansion
CollectImportingFetched(outcome) ==
    /\ pc = "fetch2b"
    /\ outcome \in Answers(cur)
    /\ LET t == walk[wi]
           fk_ids == FetchResult(cur, outcome)
       IN IF EmptyAnswer(fk_ids)
          THEN WalkMove("phase2b", NextTable(wi), NoFetch, need, ready, tasks,
                        Spend(outcome), failed)
          ELSE WalkMove("revert2b", wi, NoFetch, Update(t, fk_ids), ready,
                        RevertTasks(sc, t), Spend(outcome), failed)

\* the skip test of _collect_importing_revert_tables_data
SkipRevertTable(s, rev, t) ==
    FksWithKeyColumn(s, rev) # {} /\ ~WithKeyColumn(s, t)

\* _collect_importing_revert_tables_data
CollectImportingRevertTablesData(tk) ==
    /\ tk.kind = "revert_table" /\ tk.st = "new" /\ Running(tk)
    /\ IF SkipRevertTable(sc, tk.o, tk.t)
       THEN TaskStep(Replace(tk, {}, {}), need, ready, revflag, faults)
       ELSE IF need[tk.o] # {}
       THEN TaskStep(
              Replace(tk, {Waiting(tk)},
                { NewTask(Append(tk.id, Elem(c.name, 0)), "revert_ids", tk.t,
                          c.name, tk.o, {}, <<>>, 0)
                  : c \in GetColumnsByConstraintTableName(sc, tk.o, tk.t) }),
              need, ready, revflag, faults)
       ELSE TaskStep(Replace(tk, {}, {}), need, ready,
                     [revflag EXCEPT ![tk.t] = @ \cup {tk.o}], faults)

\* ... its column tasks are done: the referencing table is flagged
CollectImportingRevertTablesDataDone(tk) ==
    /\ tk.kind = "revert_table" /\ tk.st = "woken" /\ Running(tk)
    /\ TaskStep(Replace(tk, {}, {}), need, ready,
                [revflag EXCEPT ![tk.t] = @ \cup {tk.o}], faults)

\* _collect_revert_table_ids: the fetch is sent
CollectRevertTableIds(tk) ==
    /\ tk.kind = "revert_ids" /\ tk.st = "new" /\ Running(tk)
    /\ LET rev_table_pk_ids ==
               IF ~IsFullTransferred(sc, tk.o) THEN need[tk.o] ELSE {}
       IN TaskStep(
            Replace(tk, {Await(tk, GetTableColumnValues(sc, seed, tk.o,
                       ColumnByName(sc, tk.o, tk.c), rev_table_pk_ids,
                       EmptyWhere))}, {}),
            need, ready, revflag, faults)

\* ... rev_ids arrive and are merged into the walked table
CollectRevertTableIdsFetched(tk, outcome) ==
    /\ tk.kind = "revert_ids" /\ tk.st = "iodone" /\ Running(tk)
    /\ outcome \in Answers(tk)
    /\ TaskStep(Replace(tk, {}, {}), Update(tk.t, FetchResult(tk, outcome)),
                ready, revflag, Spend(outcome))

\* the reverse expansion is over and the table has ids: it is ready
CollectImportingReady ==
    /\ pc = "revert2b" /\ Outstanding = {}
    /\ need[walk[wi]] # {}
    /\ WalkMove("phase2b", NextTable(wi), cur, need, MarkReady(walk[wi]),
                tasks, faults, failed)

\* ... or it has none: all its primary keys are fetched
CollectImportingAllRecords ==
    /\ pc = "revert2b" /\ Outstanding = {}
    /\ need[walk[wi]] = {}
    /\ LET t == walk[wi]
           f == GetTableColumnValues(sc, seed, t, sc.pk[t], {}, EmptyWhere)
       IN WalkMove("all2b", wi,
                   [res |-> f.res, db |-> f.db, cols |-> FALSE, where |-> FALSE],
                   need, ready, tasks, faults, failed)

CollectImportingAllRecordsFetched(outcome) ==
    /\ pc = "all2b"
    /\ outcome \in Answers(cur)
    /\ WalkMove("phase2b", NextTable(wi), NoFetch,
                Update(walk[wi], FetchResult(cur, outcome)),
                MarkReady(walk[wi]), tasks, Spend(outcome), failed)

\* a fetch awaited by the Phase 2b coroutine raises a driver error: the
\* exception leaves _prepare_common_tables, whose task collect() only
\* waited for
PrepareCommonTablesFails ==
    /\ pc \in {"fetch2b", "all2b"}
    /\ "driver" \in Outcomes(cur)
    /\ WalkMove("phase3", wi, NoFetch, need, ready, tasks, faults - 1,
                failed \cup {"common_tables"})

\* --------------------------------------------------------------- phase 3
SrcModels(s) == {s.srccat[i][2] : i \in DOMAIN s.srccat}

Latest(S) == CHOOSE i \in S : \A j \in S : j <= i

\* content_type_dict: a pair listed twice keeps the id of its last row
ContentTypeId(s, model) ==
    s.srccat[Latest({i \in DOMAIN s.srccat : s.srccat[i][2] = model})][1]

\* content_type_table_dict: its keys, in the order of their first row
DictKeys(s) ==
    {i \in DOMAIN s.dstcat :
        \A j \in 1..(i - 1) : s.dstcat[j][2] # s.dstcat[i][2]}

\* the keys the loop of _prepare_content_type_tables records: it stops at
\* the first (app_label, model) the source lacks
RecordedKeys(s) ==
    {i \in DictKeys(s) :
        \A j \in DictKeys(s) : j <= i => s.dstcat[j][2] \in SrcModels(s)}

\* content_type_table after the loop: a key stands for the table of its
\* last row, and a table named by several keys keeps the id of the last
ContentTypeTable(s, old) ==
    LET rec == RecordedKeys(s)
        tbl(i) == s.dstcat[Latest({j \in DOMAIN s.dstcat :
                                     s.dstcat[j][2] = s.dstcat[i][2]})][1]
    IN [ n \in DOMAIN old \cup {tbl(i) : i \in rec} |->
           IF \E i \in rec : tbl(i) = n
           THEN ContentTypeId(s,
                    s.dstcat[Latest({i \in rec : tbl(i) = n})][2])
           ELSE old[n] ]

\* collect() enters the third stage: the task of
\* _collect_generic_tables_records_ids is created
EnterGenericTablesStage ==
    /\ pc = "phase3" /\ Collecting
    /\ pc' = "stage3"
    /\ UNCHANGED <<env, tr, chunk, faults, need, ready, revflag, cttable, tasks, rq,
                   walk, wi, cur, failed, run, saved>>

\* that task runs: the task of _prepare_content_type_tables is created
StartCollectGenericTablesRecordsIds ==
    /\ pc = "stage3"
    /\ pc' = "prepare3"
    /\ UNCHANGED <<env, tr, chunk, faults, need, ready, revflag, cttable, tasks, rq,
                   walk, wi, cur, failed, run, saved>>

\* _prepare_content_type_tables runs: the destination catalog query is sent
PrepareContentTypeTables ==
    /\ pc = "prepare3"
    /\ pc' = "catalog_dst"
    /\ UNCHANGED <<env, tr, chunk, faults, need, ready, revflag, cttable, tasks, rq,
                   walk, wi, cur, failed, run, saved>>

\* ... the destination catalog arrives: the source catalog query is sent
ContentTypeTableListFetched ==
    /\ pc = "catalog_dst"
    /\ pc' = "catalog_src"
    /\ UNCHANGED <<env, tr, chunk, faults, need, ready, revflag, cttable, tasks, rq,
                   walk, wi, cur, failed, run, saved>>

\* ... the source catalog arrives: content_type_table is filled, up to the
\* first pair the source lacks
ContentTypeListFetched ==
    /\ pc = "catalog_src"
    /\ cttable' = ContentTypeTable(sc, cttable)
    /\ failed' = IF RecordedKeys(sc) # DictKeys(sc)
                 THEN failed \cup {"content_type_tables"} ELSE failed
    /\ pc' = "generic3"
    /\ UNCHANGED <<env, tr, chunk, faults, need, ready, revflag, tasks, rq, walk, wi,
                   cur, run, saved>>

\* a catalog query raises: _prepare_content_type_tables ends with the
\* exception, which the asyncio.wait of its caller keeps in the task
PrepareContentTypeTablesFails ==
    /\ pc \in {"catalog_dst", "catalog_src"}
    /\ faults > 0
    /\ faults' = faults - 1
    /\ failed' = failed \cup {"content_type_tables"}
    /\ pc' = "generic3"
    /\ UNCHANGED <<env, tr, chunk, need, ready, revflag, cttable, tasks, rq, walk, wi,
                   cur, run, saved>>

GenericTableNames(s) == s.generic \ s.excluded

\* ... one task per generic table
CollectGenericTablesRecordsIds ==
    /\ pc = "generic3"
    /\ tasks' = { NewTask(<<Elem(g, 0)>>, "generic_table", g, "", "", {},
                          <<>>, 0) : g \in GenericTableNames(sc) }
    /\ Schedule(tasks', rq)
    /\ pc' = "wait3"
    /\ UNCHANGED <<env, tr, chunk, faults, need, ready, revflag, cttable, walk, wi,
                   cur, failed, run, saved>>

\* _prepare_generic_table_data: one task per catalog table
PrepareGenericTableData(tk) ==
    /\ tk.kind = "generic_table" /\ tk.st = "new" /\ Running(tk)
    /\ LET kids == { NewTask(Append(tk.id, Elem(r, 0)), "generic_data", tk.t,
                             "", r, {}, <<>>, 0) : r \in DOMAIN cttable }
       IN TaskStep(Replace(tk, IF kids = {} THEN {} ELSE {Waiting(tk)}, kids),
                   need, ready, revflag, faults)

\* the returns of _prepare_content_type_generic_data before its fetch
NoGenericData(s, rel) ==
    \/ rel \notin s.tables
    \/ s.dtype[rel] # s.oidtype

GenericWhereConditions(rel) ==
    [oid |-> need[rel], ctid |-> {cttable[rel]}]

\* _prepare_content_type_generic_data
PrepareContentTypeGenericData(tk) ==
    /\ tk.kind = "generic_data" /\ tk.st = "new" /\ Running(tk)
    /\ IF NoGenericData(sc, tk.o)
       THEN TaskStep(Replace(tk, {}, {}), need, ready, revflag, faults)
       ELSE TaskStep(
              Replace(tk, {Await(tk, GetTableColumnValues(sc, seed, tk.t,
                         sc.pk[tk.t], {}, GenericWhereConditions(tk.o)))}, {}),
              need, ready, revflag, faults)

PrepareContentTypeGenericDataFetched(tk, outcome) ==
    /\ tk.kind = "generic_data" /\ tk.st = "iodone" /\ Running(tk)
    /\ outcome \in Answers(tk)
    /\ TaskStep(Replace(tk, {}, {}), Update(tk.t, FetchResult(tk, outcome)),
                ready, revflag, Spend(outcome))

\* collect() returns
CollectReturns ==
    /\ pc = "wait3" /\ Outstanding = {} /\ Collecting
    /\ pc' = "done"
    /\ saved' = IF run = 1 THEN [pks |-> need, chunk |-> chunk] ELSE saved
    /\ UNCHANGED <<env, tr, chunk, faults, need, ready, revflag, cttable, tasks, rq,
                   walk, wi, cur, failed, run>>

\* ------------------------------------------------------------ the caller
\* collect() is called again on the same schema object and collector
CollectAgain ==
    /\ pc = "done" /\ run < MaxRuns
    /\ pc' = "phase1"
    /\ run' = run + 1
    /\ UNCHANGED <<env, tr, chunk, faults, need, ready, revflag, cttable, tasks, rq,
                   walk, wi, cur, failed, saved>>

\* a fresh schema model and Collector with another CHUNK_SIZE are built
\* for the same source
NewCollector ==
    /\ pc = "done" /\ run < MaxRuns
    /\ chunk' \in 1..MaxChunkSize
    /\ need' = [t \in sc.tables |-> {}]
    /\ ready' = [t \in sc.tables |-> FALSE]
    /\ revflag' = [t \in sc.tables |-> {}]
    /\ cttable' = EmptyWhere
    /\ pc' = "idle"
    /\ UNCHANGED <<env, tr, faults, tasks, rq, walk, wi, cur, failed, run, saved>>

\* ---------------------------------------------------------- specification
Outcome == {"ok", "syntax"}

TaskNext ==
    \/ \E tk \in tasks : PrepareTablesWithKeyColumn(tk)
    \/ \E tk \in tasks, o \in Outcome : PrepareTablesWithKeyColumnFetched(tk, o)
    \/ \E tk \in tasks : PrepareTablesWithKeyColumnDone(tk)
    \/ \E tk \in tasks : RecursivelyPreparingChunk(tk)
    \/ \E tk \in tasks : WaitDone(tk)
    \/ \E tk \in tasks : RecursivelyPreparingForeignTable(tk)
    \/ \E tk \in tasks, o \in Outcome :
           RecursivelyPreparingForeignTableFetched(tk, o)
    \/ \E tk \in tasks : CollectImportingRevertTablesData(tk)
    \/ \E tk \in tasks : CollectImportingRevertTablesDataDone(tk)
    \/ \E tk \in tasks : CollectRevertTableIds(tk)
    \/ \E tk \in tasks, o \in Outcome : CollectRevertTableIdsFetched(tk, o)
    \/ \E tk \in tasks : PrepareGenericTableData(tk)
    \/ \E tk \in tasks : PrepareContentTypeGenericData(tk)
    \/ \E tk \in tasks, o \in Outcome :
           PrepareContentTypeGenericDataFetched(tk, o)

CollectNext ==
    \/ CallCollect
    \/ CollectKeyTableValues
    \/ EnterCommonTablesStage
    \/ PrepareCommonTables
    \/ SortNotTransferred
    \/ WalkFinished
    \/ WalkSkipReady
    \/ CollectImportingNothingToPull
    \/ CollectImportingFetch
    \/ \E o \in Outcome : CollectImportingFetched(o)
    \/ CollectImportingReady
    \/ CollectImportingAllRecords
    \/ \E o \in Outcome : CollectImportingAllRecordsFetched(o)
    \/ EnterGenericTablesStage
    \/ StartCollectGenericTablesRecordsIds
    \/ PrepareContentTypeTables
    \/ ContentTypeTableListFetched
    \/ ContentTypeListFetched
    \/ CollectGenericTablesRecordsIds
    \/ CollectReturns

LoopNext ==
    \/ \E tk \in tasks : IOArrive(tk)
    \/ \E tk \in tasks : Wake(tk)

FaultNext ==
    \/ \E tk \in tasks : TaskFails(tk)
    \/ PrepareCommonTablesFails
    \/ PrepareContentTypeTablesFails

Next == TaskNext \/ LoopNext \/ CollectNext \/ FaultNext

\* one collect(), database calls may fail
Spec == Init /\ [][Next]_vars

\* the same under weak fairness: a runnable coroutine eventually runs
FairSpec == Spec /\ WF_vars(Next)

InitNoFaults == \E s \in Scenarios : InitCollector(s, {0})

\* the collect() task is cancelled, by any callback of the loop:
\* CancelledError is raised at the asyncio.wait collect() is suspended in,
\* which leaves the task it waits for alone
CancelCollect ==
    /\ pc \notin {"idle", "done"} /\ Collecting
    /\ failed' = failed \cup {"collect"}
    /\ UNCHANGED <<env, tr, chunk, faults, need, ready, revflag, cttable, pc,
                   tasks, rq, walk, wi, cur, run, saved>>

\* one collect(), every database call answers
SpecOk == InitNoFaults /\ [][TaskNext \/ LoopNext \/ CollectNext]_vars

\* one collect() that the caller may cancel
SpecCancel ==
    InitNoFaults /\ [][TaskNext \/ LoopNext \/ CollectNext \/ CancelCollect]_vars

\* collect() called twice on the same schema object, no failing call
SpecTwice == InitNoFaults /\ [][TaskNext \/ LoopNext \/ CollectNext \/ CollectAgain]_vars

\* two collectors with their own CHUNK_SIZE on the same source
SpecChunk == InitNoFaults /\ [][TaskNext \/ LoopNext \/ CollectNext \/ NewCollector]_vars

\* ---------------------------------------------------------- transporter
\* DBTable.need_imported: the ids the collector selected
NeedImported(t) == need[t]

\* the schema objects collect() hands over: the forward scenario collected
\* for each of its seeds
Collected ==
    LET s == ApplyPkMode(ScForward, "self")
    IN { [sc |-> s, seed |-> {1},
          need |-> [org |-> {1}, user |-> {10, 11}, doc |-> {100}]],
         [sc |-> s, seed |-> {1, 2},
          need |-> [org |-> {1, 2}, user |-> {10, 11, 12},
                    doc |-> {100, 101}]] }

\* the state in which Transporter.transfer() is called: collect() has
\* returned
InitTransfer ==
    \E c \in Collected :
        /\ sc = c.sc /\ seed = c.seed /\ need = c.need
        /\ chunk = MaxChunkSize
        /\ topo = [sorted |-> <<"org", "user", "doc">>, cyclic |-> <<>>]
        /\ wr = <<>>
        /\ faults = 0
        /\ ready = [t \in c.sc.tables |-> TRUE]
        /\ revflag = [t \in c.sc.tables |-> {}]
        /\ cttable = EmptyWhere
        /\ pc = "done"
        /\ tasks = {} /\ rq = <<>>
        /\ walk = <<"doc", "user", "org">> /\ wi = 4
        /\ cur = NoFetch
        /\ failed = {}
        /\ run = 1
        /\ saved = [pks |-> c.need, chunk |-> MaxChunkSize]
        /\ \E z \in 1..MaxChunkSize, f \in 0..MaxFaults :
               tr = NewTransporter(c.sc, z, f)

TransporterStep(tr2) ==
    /\ tr' = tr2
    /\ UNCHANGED <<env, chunk, faults, need, ready, revflag, cttable, pc, tasks,
                   rq, walk, wi, cur, failed, run, saved>>

\* transfer() up to the gather of _transfer_collecting_data: one
\* _transfer_table_data coroutine per table with ids to import
CallTransfer ==
    /\ pc = "done" /\ tr.pc = "idle"
    /\ LET tabs == {t \in sc.tables : NeedImported(t) # {}}
       IN TransporterStep(
            [tr EXCEPT
               !.pc = "collecting",
               !.co = [t \in sc.tables |->
                         IF t \in tabs THEN [st |-> "ready", k |-> 1]
                         ELSE [st |-> "none", k |-> 0]],
               !.chunks = [t \in sc.tables |->
                             MakeChunks(NeedImported(t), tr.size)],
               !.gather = IF tabs = {} THEN "ok" ELSE "pending"])

\* the coroutine of a table after it sent a chunk: it awaits the answer
ChunkNotAwaited(c) == [c EXCEPT !.k = @ + 1]

ChunkAwaited(c) == [c EXCEPT !.st = "io"]

\* _transfer_table_data: the loop sends its next chunk
TransferTableData(t) ==
    /\ tr.co[t].st = "ready" /\ tr.co[t].k <= Len(tr.chunks[t])
    /\ TransporterStep(
         [tr EXCEPT !.inflight = @ \cup {<<t, tr.co[t].k>>},
                    !.co[t] = ChunkAwaited(@)])

\* ... the loop is exhausted
TransferTableDataDone(t) ==
    /\ tr.co[t].st = "ready" /\ tr.co[t].k > Len(tr.chunks[t])
    /\ TransporterStep([tr EXCEPT !.co[t].st = "done"])

\* _transfer_chunk_table_data: the destination answers with the inserted
\* ids
TransferChunkTableData(t, k) ==
    /\ <<t, k>> \in tr.inflight
    /\ TransporterStep(
         [tr EXCEPT
            !.inflight = @ \ {<<t, k>>},
            !.landed = @ \cup {<<t, k>>},
            !.transferred[t] = @ \cup tr.chunks[t][k],
            !.co[t] = IF @.st = "io" /\ @.k = k
                      THEN [st |-> "ready", k |-> k + 1] ELSE @])

\* ... or the statement raises: the coroutine of the table ends with the
\* exception
TransferChunkTableDataFails(t, k) ==
    /\ <<t, k>> \in tr.inflight /\ tr.faults > 0
    /\ TransporterStep(
         [tr EXCEPT
            !.inflight = @ \ {<<t, k>>},
            !.faults = @ - 1,
            !.co[t].st = "failed"])

\* the callback of gather for a coroutine that ended with an exception:
\* gather hands the exception to _transfer_collecting_data while the
\* other coroutines go on
TransferCollectingDataFails ==
    /\ tr.pc = "collecting" /\ tr.gather = "pending"
    /\ \E t \in sc.tables : tr.co[t].st = "failed"
    /\ TransporterStep([tr EXCEPT !.gather = "failed"])

\* gather returns: every _transfer_table_data coroutine has returned
TransferCollectingData ==
    /\ tr.pc = "collecting" /\ tr.gather = "pending"
    /\ \A t \in sc.tables : tr.co[t].st \in {"none", "done"}
    /\ TransporterStep([tr EXCEPT !.gather = "ok"])

\* transfer(): the first asyncio.wait returns, _update_sequences starts
UpdateSequences ==
    /\ tr.pc = "collecting" /\ tr.gather # "pending"
    /\ TransporterStep([tr EXCEPT !.pc = "sequences", !.seq = "running"])

\* set_max_tables_sequences has answered
SequencesUpdated ==
    /\ tr.pc = "sequences" /\ tr.seq = "running"
    /\ TransporterStep([tr EXCEPT !.seq = "done"])

\* the second asyncio.wait returns: transfer() returns
TransferReturns ==
    /\ tr.pc = "sequences" /\ tr.seq = "done"
    /\ TransporterStep([tr EXCEPT !.pc = "done"])

TransferNext ==
    \/ CallTransfer
    \/ \E t \in sc.tables : TransferTableData(t)
    \/ \E t \in sc.tables : TransferTableDataDone(t)
    \/ \E c \in tr.inflight : TransferChunkTableData(c[1], c[2])
    \/ \E c \in tr.inflight : TransferChunkTableDataFails(c[1], c[2])
    \/ TransferCollectingData
    \/ TransferCollectingDataFails
    \/ UpdateSequences
    \/ SequencesUpdated
    \/ TransferReturns

\* Transporter.transfer() on a collected schema
SpecTransfer == InitTransfer /\ [][TransferNext]_vars

\* ------------------------------------------------------------ properties
InScope(s) == s.tables \ s.excluded

\* C1: when collect() has returned and no task ended with an error, every
\* table that is not excluded has is_ready_for_transferring = true.
C1_AllReady ==
    (pc = "done" /\ failed = {}) => \A t \in InScope(sc) : ready[t]

\* C2: referential closure: when collect() has returned and no task ended
\* with an error, every selected row of a table in scope has each FK value
\* NULL or selected in the referenced table, unless that table is excluded.
C2_ReferentialClosure ==
    (pc = "done" /\ failed = {}) =>
        \A t \in InScope(sc) : \A r \in sc.rows[t] : \A c \in FkColumns(sc, t) :
            (r.id \in need[t] /\ c.ct \notin sc.excluded)
                => (r[c.name] = NULL \/ r[c.name] \in need[c.ct])

\* C3: once a table is ready its need_transfer_pks never changes again.
C3_FrozenWhenReady ==
    [][\A t \in sc.tables : ready[t] => need'[t] = need[t]]_vars

\* C4: need_transfer_pks only grows: in every step the new set of every
\* table contains the old one.
C4_Monotonic ==
    [][\A t \in sc.tables : need[t] \subseteq need'[t]]_vars

C4_Witness ==
    /\ pc = "done"
    /\ \E t \in sc.tables \ {sc.key} : Cardinality(need[t]) >= 2

\* C5: fail-fast: once a task has ended with an error, collect() does not
\* return normally.
C5_FailFast == failed # {} => pc # "done"

\* C6: a second collect() on the same schema object and source leaves
\* every need_transfer_pks as the first collect() left it.
C6_Idempotent ==
    (run = 2 /\ pc = "done" /\ failed = {})
        => \A t \in sc.tables : need[t] = saved.pks[t]

ReferencedIds(s, t, cn, pks) ==
    {r[cn] : r \in {x \in s.rows[t] : x.id \in pks}} \ {NULL}

\* C7: on the chain a -> b -> c, after a collect() without errors, b holds
\* exactly the ids the selected rows of a reference and c exactly the ids
\* the selected rows of b reference.
C7_ChainMinimal ==
    (pc = "done" /\ failed = {} /\ sc.name = "chain") =>
        /\ need["b"] = ReferencedIds(sc, "a", "f2", need["a"])
        /\ need["c"] = ReferencedIds(sc, "b", "f1", need["b"])

StackDistinct ==
    \A tk \in tasks : \A i, j \in 1..Len(tk.stack) :
        i # j => tk.stack[i] # tk.stack[j]

\* C8: on a schema whose FK graph has a cycle every collect() ends: no
\* recursion stack holds a table twice and collect() eventually returns.
C8_CycleSafe ==
    topo.cyclic # <<>> => ([]StackDistinct /\ <>(pc = "done"))

C8_Witness ==
    /\ pc = "done"
    /\ topo.cyclic # <<>>
    /\ \A t \in SeqRange(topo.cyclic) : need[t] # {}

\* C9: the ids collected do not depend on CHUNK_SIZE: a second collector
\* with any other chunk size ends with the same need_transfer_pks.
C9_ChunkInvariant == (pc = "done" /\ run = 2) => need = saved.pks

C9_Witness ==
    /\ pc = "done" /\ run = 2
    /\ saved.chunk # chunk
    /\ \E t \in TablesWithKeyColumn(sc) : Cardinality(need[t]) > 1

\* C10: an excluded table never has an id selected.
C10_ExcludedEmpty == \A e \in sc.excluded \cap sc.tables : need[e] = {}

\* C11: Phase 1 makes the key table's need_transfer_pks the seed set and
\* marks it ready, and the set is still exactly the seed when collect() has
\* returned.
C11_KeySeeded ==
    /\ pc \notin {"idle", "phase1"} => ready[sc.key]
    /\ pc = "phase2a" => need[sc.key] = seed
    /\ pc = "done" => need[sc.key] = seed

\* primary keys of t whose key-column value lies in the seed set
KeyAnchoredIds(s, t, keyvals) ==
    {r.id : r \in {x \in s.rows[t] : x[s.keycol[t]] \in keyvals}}

\* C12: after Phase 2a every table with a key column that is not excluded
\* holds exactly the primary keys of its source rows whose key-column value
\* is in the seed set, also when its primary-key column has no
\* constraint_table.
C12_KeyAnchored ==
    (pc = "phase2b" /\ failed = {}) =>
        \A t \in TablesWithKeyColumn(sc) \ sc.excluded :
            need[t] = KeyAnchoredIds(sc, t, seed)

\* rows of the generic table g that point, through a recorded content type
\* of a table with a matching pk data type, at a selected row
GenericRowsMatching(s, g) ==
    { r.id : r \in { x \in s.rows[g] :
        \E rel \in DOMAIN cttable \cap s.tables :
            /\ s.dtype[rel] = s.oidtype
            /\ x.ctid = cttable[rel]
            /\ x.oid \in need[rel] } }

\* the rows among them that the fetch selects: none when the primary-key
\* column of g has no constraint_table or an excluded one (no statement is
\* sent); when g has a key column, only rows whose key-column value is one
\* of the key values
GenericRowsSelected(s, g) ==
    IF s.pk[g].ct = NoTable \/ s.pk[g].ct \in s.excluded THEN {}
    ELSE { r.id : r \in { x \in s.rows[g] :
            /\ WithKeyColumn(s, g) => x[s.keycol[g]] \in seed
            /\ \E rel \in DOMAIN cttable \cap s.tables :
                   /\ s.dtype[rel] = s.oidtype
                   /\ x.ctid = cttable[rel]
                   /\ x.oid \in need[rel] } }

\* a step of Phase 3 adds to a generic table only rows the fetch selects
GenericAddsSelected ==
    pc \in {"generic3", "wait3"} =>
        \A g \in GenericTableNames(sc) :
            (need'[g] \ need[g]) \subseteq GenericRowsSelected(sc, g)

\* after collect() every row the fetch selects is held
GenericAllSelected ==
    (pc = "done" /\ failed = {}) =>
        \A g \in GenericTableNames(sc) :
            GenericRowsSelected(sc, g) \subseteq need[g]

\* what Phase 3 does select
GenericSelection == [][GenericAddsSelected]_vars /\ []GenericAllSelected

\* C13: when collect() has returned without an error a generic table
\* holds every row that points at a selected row through a recorded
\* content type of a table with a matching pk data type.
C13_AllMatchingSelected ==
    (pc = "done" /\ failed = {}) =>
        \A g \in GenericTableNames(sc) :
            GenericRowsMatching(sc, g) \subseteq need[g]

ChunksOf(t) == {c \in tr.inflight : c[1] = t}

\* C14: at most one chunk of a table is in flight, and a chunk is sent only
\* after the chunk before it was answered; chunks of different tables may
\* be in flight together.
C14_ChunksSerialized ==
    \A t \in sc.tables :
        /\ Cardinality(ChunksOf(t)) <= 1
        /\ \A c \in ChunksOf(t) : \A j \in 1..(c[2] - 1) : <<t, j>> \in tr.landed

C14_Witness ==
    /\ \E c, d \in tr.inflight : c[1] # d[1] /\ c[2] > 1
    /\ tr.seq = "none"

\* C15: the sequence update starts only when no chunk transfer is in flight
\* or still to come, and never after a transfer stage that failed.
C15_SequencesLast ==
    tr.seq # "none" =>
        /\ tr.inflight = {}
        /\ \A t \in sc.tables : tr.co[t].st \in {"none", "done"}
        /\ tr.gather = "ok"

\* no id is added and no task sends a query
Quiet ==
    /\ need' = need
    /\ \A x \in tasks' : x.st = "io" =>
           \E y \in tasks : y.id = x.id /\ y.st = "io"
    /\ pc' \in {"fetch2b", "all2b", "catalog_dst", "catalog_src"} => pc' = pc

\* C16: once collect() has been cancelled no task sends a source query or
\* adds an id to a need_transfer_pks.
C16_CancelStopsTasks == [][~Collecting => Quiet]_vars

Phase2aKinds ==
    {"with_key_column", "with_key_column_chunk", "foreign_table",
     "foreign_table_chunk"}

Phase2bKinds == {"revert_table", "revert_ids"}

Phase3Kinds == {"generic_table", "generic_data"}

\* the phase the collect() coroutine is in
PhaseOf(p) ==
    CASE p = "idle" -> 0
      [] p = "phase1" -> 1
      [] p \in {"phase2a", "stage2", "wait2a", "phase2b", "fetch2b", "revert2b",
                "all2b"} -> 2
      [] p \in {"phase3", "stage3", "prepare3", "catalog_dst", "catalog_src",
                "generic3", "wait3"} -> 3
      [] OTHER -> 4

\* the tasks a phase or sub-phase leaves behind: none
PhaseBarrier ==
    /\ PhaseOf(pc) >= 2 => ready[sc.key]
    /\ pc \in {"phase1", "phase2a", "stage2"} => tasks = {}
    /\ pc = "wait2a" => \A x \in tasks : x.kind \in Phase2aKinds
    /\ pc \in {"phase2b", "fetch2b", "revert2b", "all2b"} =>
           \A x \in tasks : x.kind \in Phase2bKinds
    /\ pc \in {"phase2b", "fetch2b", "all2b", "phase3", "stage3", "prepare3",
              "catalog_dst", "catalog_src", "generic3"} => tasks = {}
    /\ PhaseOf(pc) = 3 => \A x \in tasks : x.kind \in Phase3Kinds
    /\ PhaseOf(pc) = 3 => ~cur.db
    /\ pc = "done" => tasks = {}

\* C17: collect() goes through Phase 1, Phase 2 and Phase 3 in that order,
\* and a phase, and the Phase 2b walk, starts only when every task of the
\* phase before it has ended.
C17_PhaseBarriers ==
    []PhaseBarrier /\ [][PhaseOf(pc') >= PhaseOf(pc)]_vars

C17_Witness ==
    /\ pc = "wait3"
    /\ \E x \in tasks : x.kind = "generic_data" /\ x.st = "io"
    /\ \E t \in sc.tables \ (TablesWithKeyColumn(sc) \cup {sc.key}) :
           need[t] # {} /\ ready[t]

InWalk == pc \in {"phase2b", "fetch2b", "revert2b", "all2b"}

\* the walk, position by position: the tables of no edge, the cyclic list
\* backwards, the sorted list backwards
WalkOrder ==
    LET E == NotTransferredRelatives(sc)
        nc == Len(topo.cyclic)
        ns == Len(topo.sorted)
        n0 == Len(walk) - nc - ns
    IN /\ n0 >= 0
       /\ {walk[i] : i \in 1..n0} = TablesWithoutGenerics(sc) \ EdgeNodes(E)
       /\ \A i \in 1..nc : walk[n0 + i] = topo.cyclic[nc + 1 - i]
       /\ \A i \in 1..ns : walk[n0 + nc + i] = topo.sorted[ns + 1 - i]

\* every task and every fetch of the walk works for the table under the index
OneTableInStep ==
    /\ wi \in 1..(Len(walk) + 1)
    /\ pc \in {"fetch2b", "revert2b", "all2b"} => wi <= Len(walk)
    /\ \A x \in tasks : x.kind \in Phase2bKinds /\ x.t = walk[wi]
    /\ cur.db => tasks = {}

\* the index moves by one, with no task and no fetch of the table it leaves
StepsInOrder ==
    (InWalk /\ wi' # wi) =>
        /\ wi' = wi + 1
        /\ tasks = {} /\ tasks' = {}
        /\ ~cur'.db
        /\ pc' = "phase2b"

\* C18: Phase 2b walks the tables one at a time in the computed order
\* (tables of no edge, reversed cyclic list, reversed sorted list); the
\* step of a table, its parallel reverse-expansion tasks included, is over
\* before the step of the next table begins.
C18_WalkSequential ==
    /\ [](InWalk => WalkOrder /\ OneTableInStep)
    /\ [][StepsInOrder]_vars

C18_Witness ==
    /\ pc = "revert2b" /\ wi > 1
    /\ Len(topo.sorted) >= 2
    /\ Cardinality({x \in tasks : x.st = "io"}) >= 2

\* the tables whose need_transfer_pks the step of table w reads when it
\* builds its where-conditions
WhereReads(s, w) == {c.ct : c \in ClosureFkColumns(s, w)}

\* walk positions before the index whose table is still not ready: the
\* step of such a table ran, read its targets and returned
StepsReturnedEarly == {j \in 1..(wi - 1) : ~ready[walk[j]]}

ReadEarlier(v) ==
    \E j \in StepsReturnedEarly : v \in WhereReads(sc, walk[j])

NoLateWrite ==
    InWalk => \A v \in sc.tables : need'[v] # need[v] => ~ReadEarlier(v)

\* C19: in Phase 2b no id is added to a table V by a table step that
\* comes later in the walk than a step that already read V's
\* need_transfer_pks.
C19_ReadsAfterWrites == [][NoLateWrite]_vars

\* a step in which a database call raised
FetchRaised == faults' < faults

\* the coroutine that awaited the call ends with the exception: it merges
\* no ids, marks no table ready and launches no task
EndsWithException ==
    /\ failed' # {}
    /\ need' = need
    /\ ready' = ready
    /\ tasks' \subseteq tasks

\* C20: a PostgresSyntaxError raised by the source driver during a
\* collector fetch is re-raised; the fetch never completes with an empty
\* id list that is merged as if the statement had returned no rows.
C20_SyntaxErrorFatal == [][FetchRaised => EndsWithException]_vars

\* the (app_label, model) pairs of both catalogs, as table name -> source
\* content_type_id
CatalogIntersection(s) ==
    LET both == {e \in SeqRange(s.dstcat) : e[2] \in SrcModels(s)}
    IN [ n \in {e[1] : e \in both} |->
           ContentTypeId(s, (CHOOSE e \in both : e[1] = n)[2]) ]

\* C21: after Phase 3 step 1 content_type_table holds exactly the pairs
\* present in both catalogs; a pair of the destination catalog alone
\* raises no error and keeps no other entry from being recorded.
C21_CatalogIntersection ==
    pc \in {"generic3", "wait3", "done"} =>
        /\ cttable = CatalogIntersection(sc)
        /\ "content_type_tables" \notin failed

\* tables one FK hop from a key-anchored table that are not key-anchored
OneHopTargets(s) ==
    UNION { {c.ct : c \in NotSelfFkColumns(s, t)} : t \in TablesWithKeyColumn(s) }
        \ TablesWithKeyColumn(s)

\* the step of a recursion task tk that adds ids to table v
RecursionAdds(tk, v) ==
    /\ tk.kind = "foreign_table" /\ Running(tk)
    /\ need'[v] # need[v]

SidewaysBounded ==
    \A tk \in tasks : \A v \in sc.tables :
        RecursionAdds(tk, v) =>
            /\ v = tk.o
            /\ WithKeyColumn(sc, tk.t)
            /\ v \in OneHopTargets(sc)
            /\ v \notin SeqRange(tk.stack)

\* C22: the Phase 2a recursion adds ids only to tables that a non-self FK
\* column of a key-anchored table references directly, that are not
\* key-anchored and not on the recursion stack; never to a table two or
\* more hops away, never to a key-anchored table.
C22_SidewaysBounded == [][SidewaysBounded]_vars

C22_Witness ==
    /\ pc = "wait2a"
    /\ \E tk \in tasks :
           /\ tk.kind = "foreign_table_chunk" /\ tk.st = "new"
           /\ need[tk.t] # {}
           /\ NotSelfFkColumns(sc, tk.t) # {}

\* all primary keys of a table in the source
SourcePks(s, t) == {r.id : r \in s.rows[t]}

\* the walk leaves the step of a table it found not ready
LeavesStep == InWalk /\ wi' # wi /\ ~ready[walk[wi]]

PullsAll ==
    (LeavesStep /\ need[walk[wi]] = {} /\ NothingToPull(sc, walk[wi])) =>
        /\ need'[walk[wi]] = SourcePks(sc, walk[wi])
        /\ ready'[walk[wi]]

\* C23: when the walk is through with a table W whose need_transfer_pks is
\* still empty and whose FK columns reference no table with selected rows,
\* all primary keys of W in the source are in W.need_transfer_pks and W
\* is marked ready.
C23_PullAllFallback == [][PullsAll]_vars

\* a step of the Phase 2b walk leaves the generic tables as they are
GenericUntouched ==
    InWalk => \A g \in sc.generic \cap sc.tables :
                  need'[g] = need[g] /\ ready'[g] = ready[g]

\* C24: the Phase 2b walk collects no ids for a table listed in
\* TABLES_WITH_GENERIC_FOREIGN_KEY and does not mark it ready, also when
\* a non-generic table has a FK column referencing the generic table.
C24_WalkSkipsGenerics ==
    /\ [](InWalk => \A i \in 1..Len(walk) : walk[i] \notin sc.generic)
    /\ [][GenericUntouched]_vars

\* ids the key query of a key-anchored table returns
KeyQuery(s, keyvals, t) ==
    GetTableColumnValues(s, keyvals, t, s.pk[t], {}, EmptyWhere).res

\* the id sets the Phase 2a recursion fetches for table v: one per FK
\* column referencing v in a key-anchored table with selected rows
FetchedSetsFor(s, keyvals, v) ==
    UNION { { GetTableColumnValues(s, keyvals, t, c, {}, EmptyWhere).res
              : c \in {x \in NotSelfFkColumns(s, t) : x.ct = v} }
            : t \in {y \in TablesWithKeyColumn(s) : KeyQuery(s, keyvals, y) # {}} }

\* need_transfer_pks of v before Phase 2a, and all that Phase 2a fetches
\* for it
UnionOfFetched(s, keyvals, v) ==
    (IF v = s.key THEN keyvals ELSE {})
        \cup (IF WithKeyColumn(s, v) THEN KeyQuery(s, keyvals, v)
              ELSE UNION FetchedSetsFor(s, keyvals, v))

AtBarrier2a == pc = "wait2a" /\ tasks = {}

\* C25: whatever the order in which the Phase 2a tasks run and their
\* queries answer, at the Phase 2a barrier need_transfer_pks of every
\* table is its value before the phase united with every id set fetched
\* for it: no union is lost.
C25_NoLostUpdate ==
    AtBarrier2a => \A v \in sc.tables : need[v] = UnionOfFetched(sc, seed, v)

\* two tasks were in flight with different new ids for the same table
C25_Witness ==
    /\ AtBarrier2a
    /\ \E v \in sc.tables \ {sc.key} :
           /\ \E S, T \in FetchedSetsFor(sc, seed, v) :
                  S \ T # {} /\ T \ S # {}
           /\ need[v] = UnionOfFetched(sc, seed, v)

====
